---------------------------- MODULE Spec2Model ----------------------------
(***************************************************************************)
(* Model of the hierarchical state machinery of crates/bevy_state_v3:      *)
(* StateData records, StateUpdate targets, state registration, the        *)
(* StateTransition schedule (update / exit / enter system sets) and the   *)
(* transition events.                                                     *)
(* The last part models the buffer cache of crates/bevy_render             *)
(* (render_resource/buffer_cache.rs).                                      *)
(*                                                                         *)
(* Option<T> is modelled as a sequence of length 0 (None) or 1 (Some).     *)
(***************************************************************************)
EXTENDS Integers, Sequences, FiniteSets, TLC

\* ------------------------------------------------------------------ bounds
\* Number of entity ids the world may hand out.
MaxEntities == 2

\* Number of runs of the StateTransition schedule explored.
MaxTicks == 2

\* Number of API calls explored while the app is set up, and between two
\* runs of the schedule.
MaxCalls == 3

\* Largest arity of the dependency sets that the claims on StateSet range
\* over.
MaxArity == 3

\* Number of buffers the render device may create.
MaxBuffers == 3

\* ----------------------------------------------------------- option values
None == <<>>

Some(x) == <<x>>

\* ------------------------------------------------------------- state types
\* The application's state types: a root, two states of order 2 that depend
\* on the root, and a leaf that depends on both of them.
Types == {"Manual", "Computed", "Sub", "Leaf"}

Values(S) ==
    CASE S = "Manual"   -> {"A", "B"}
      [] S = "Computed" -> {"Computed"}
      [] S = "Sub"      -> {"X", "Y"}
      [] S = "Leaf"     -> {"Leaf"}

OptValues(S) == {None} \cup {Some(v) : v \in Values(S)}

\* State::DependencySet of each type, as a tuple of state types.
DependencySet(S) ==
    CASE S = "Manual"   -> <<>>
      [] S = "Computed" -> <<"Manual">>
      [] S = "Sub"      -> <<"Manual">>
      [] S = "Leaf"     -> <<"Computed", "Sub">>

Deps(S) == {DependencySet(S)[i] : i \in 1..Len(DependencySet(S))}

\* ------------------------------------------------------------- StateUpdate
Nothing == [kind |-> "Nothing"]

Disable == [kind |-> "Disable"]

Enable(v) == [kind |-> "Enable", val |-> v]

\* The `()` target of computed states.
UnitTarget == [kind |-> "Unit"]

HasUpdateTarget(S) == S \in {"Manual", "Sub"}

\* S::Target::default()
TargetDefault(S) == IF HasUpdateTarget(S) THEN Nothing ELSE UnitTarget

is_something(t) == IF t = Nothing THEN FALSE ELSE TRUE

\* as_options that maps Nothing to Some(None), as Disable.
as_options_NothingDisables(u) ==
    CASE u.kind = "Nothing" -> Some(None)
      [] u.kind = "Disable" -> Some(None)
      [] u.kind = "Enable"  -> Some(Some(u.val))

as_options(u) ==
    CASE u.kind = "Nothing" -> None
      [] u.kind = "Disable" -> Some(None)
      [] u.kind = "Enable"  -> Some(Some(u.val))

\* should_update that reports the `()` target as active.
should_update_UnitActive(t) == IF t.kind = "Unit" THEN TRUE ELSE is_something(t)

\* StateTarget::should_update for StateUpdate<S> and for ().
should_update(t) == IF t.kind = "Unit" THEN FALSE ELSE is_something(t)

\* StateTarget::reset that leaves the target as it is.
reset_Keeps(t) == t

\* StateTarget::reset: mem::take leaves the default (Nothing); no-op for ().
reset(t) == IF t.kind = "Unit" THEN t ELSE Nothing

\* --------------------------------------------------------------- StateData
StateDataDefault(S) ==
    [is_reentrant |-> FALSE, previous |-> None, current |-> None,
     target |-> TargetDefault(S), is_updated |-> FALSE]

StateDataNew(S, initial, suppress_initial_update) ==
    [StateDataDefault(S) EXCEPT !.current = initial,
                                !.is_updated = ~suppress_initial_update]

\* StateData::update that forgets to move `current` into `previous`.
StateDataUpdate_KeepsPrevious(rec, next) ==
    LET r1 == IF next = rec.current
                THEN [rec EXCEPT !.is_reentrant = TRUE]
                ELSE [rec EXCEPT !.is_reentrant = FALSE,
                                 !.current = next]
    IN [r1 EXCEPT !.is_updated = TRUE]

\* StateData::update that moves `current` into `previous` on reentries too.
StateDataUpdate_AlwaysMoves(rec, next) ==
    [rec EXCEPT !.is_reentrant = (next = rec.current),
                !.previous = rec.current,
                !.current = next,
                !.is_updated = TRUE]

StateDataUpdate(rec, next) ==
    LET r1 == IF next = rec.current
                THEN [rec EXCEPT !.is_reentrant = TRUE]
                ELSE [rec EXCEPT !.is_reentrant = FALSE,
                                 !.previous = rec.current,
                                 !.current = next]
    IN [r1 EXCEPT !.is_updated = TRUE]

\* reentrant_previous that returns `previous` whatever the flag.
reentrant_previous_Plain(rec) == rec.previous

reentrant_previous(rec) ==
    IF rec.is_reentrant THEN rec.current ELSE rec.previous

\* ------------------------------------------------------------------- order
\* const_max that keeps its first argument.
const_max_Left(a, b) == a

const_max(a, b) == IF a > b THEN a ELSE b

RECURSIVE Order(_)
\* StateSet::HIGHEST_ORDER: 0 for (), S1::ORDER for one state, the max! fold
\* for tuples.
RECURSIVE MaxFold(_, _)
MaxFold(seq, acc) ==
    IF seq = <<>> THEN acc
    ELSE MaxFold(Tail(seq), const_max(acc, Order(Head(seq))))

HIGHEST_ORDER(set) ==
    IF set = <<>> THEN 0 ELSE MaxFold(Tail(set), Order(Head(set)))

\* State::ORDER without the increment.
Order_NoIncrement(S) == HIGHEST_ORDER(DependencySet(S))

\* State::ORDER
Order(S) == HIGHEST_ORDER(DependencySet(S)) + 1

\* Direct and transitive dependencies of S.
RECURSIVE TransDeps(_)
TransDeps(S) == Deps(S) \cup UNION {TransDeps(D) : D \in Deps(S)}

\* is_changed that does not count reentrant updates.
is_changed_SkipsReentrant(set, recs) ==
    \E i \in 1..Len(set) :
        recs[set[i]].is_updated /\ ~recs[set[i]].is_reentrant

\* is_changed that never reports a change.
is_changed_Never(set, recs) == FALSE

\* is_changed that looks at the first member of the set only.
is_changed_FirstOnly(set, recs) ==
    IF set = <<>> THEN FALSE ELSE recs[Head(set)].is_updated

\* StateSet::is_changed: false for (), s1.is_updated for one state, the
\* `||` chain over the members for tuples.  `set` is the dependency tuple and
\* `recs` the records of the entity (the query item).
RECURSIVE is_changed(_, _)
is_changed(set, recs) ==
    IF set = <<>> THEN FALSE
    ELSE recs[Head(set)].is_updated \/ is_changed(Tail(set), recs)

\* ---------------------------------------------------------- State::update
\* The update functions of the application's state types.  `state` is the
\* record of the instance, `deps` the records of the same entity.
UpdateManual(state, deps) == state.target

UpdateComputed(state, deps) ==
    IF state.target.kind \in {"Disable", "Enable"} THEN Nothing
    ELSE IF deps["Manual"].current = Some("A") THEN Enable("Computed")
    ELSE Disable

UpdateSub(state, deps) ==
    IF deps["Manual"].current = Some("B")
      THEN CASE state.target.kind = "Enable"  -> Enable(state.target.val)
             [] state.target.kind = "Disable" -> Nothing
             [] OTHER                         -> Enable("X")
      ELSE Disable

UpdateLeaf(state, deps) ==
    IF deps["Computed"].current # None \/ deps["Sub"].current = Some("Y")
      THEN Enable("Leaf")
      ELSE Disable

StateUpdateFn(S, state, deps) ==
    CASE S = "Manual"   -> UpdateManual(state, deps)
      [] S = "Computed" -> UpdateComputed(state, deps)
      [] S = "Sub"      -> UpdateSub(state, deps)
      [] S = "Leaf"     -> UpdateLeaf(state, deps)

\* ---------------------------------------------------------- StateSystemSet
AllUpdates == <<"AllUpdates", 0>>

AllExits == <<"AllExits", 0>>

AllEnters == <<"AllEnters", 0>>

UpdateSet(n) == <<"Update", n>>

ExitSet(n) == <<"Exit", n>>

EnterSet(n) == <<"Enter", n>>

\* configuration with the exit sets ordered like the enter sets.
configuration_ExitAfter(S) ==
    [before |-> {<<AllUpdates, AllExits>>, <<AllExits, AllEnters>>,
                 <<UpdateSet(Order(S) - 1), UpdateSet(Order(S))>>,
                 <<ExitSet(Order(S) - 1), ExitSet(Order(S))>>,
                 <<EnterSet(Order(S) - 1), EnterSet(Order(S))>>},
     member |-> {<<UpdateSet(Order(S)), AllUpdates>>,
                 <<ExitSet(Order(S)), AllExits>>,
                 <<EnterSet(Order(S)), AllEnters>>}]

\* configuration without the chain of the three phases.
configuration_NoChain(S) ==
    [before |-> {<<UpdateSet(Order(S) - 1), UpdateSet(Order(S))>>,
                 <<ExitSet(Order(S)), ExitSet(Order(S) - 1)>>,
                 <<EnterSet(Order(S) - 1), EnterSet(Order(S))>>},
     member |-> {<<UpdateSet(Order(S)), AllUpdates>>,
                 <<ExitSet(Order(S)), AllExits>>,
                 <<EnterSet(Order(S)), AllEnters>>}]

\* configuration that does not order the update sets.
configuration_NoUpdateOrder(S) ==
    [before |-> {<<AllUpdates, AllExits>>, <<AllExits, AllEnters>>,
                 <<ExitSet(Order(S)), ExitSet(Order(S) - 1)>>,
                 <<EnterSet(Order(S) - 1), EnterSet(Order(S))>>},
     member |-> {<<UpdateSet(Order(S)), AllUpdates>>,
                 <<ExitSet(Order(S)), AllExits>>,
                 <<EnterSet(Order(S)), AllEnters>>}]

\* StateSystemSet::configuration::<S>(): `before` holds the pairs <<a, b>>
\* with set a ordered before set b, `member` the pairs <<child, parent>>.
configuration(S) ==
    [before |-> {<<AllUpdates, AllExits>>, <<AllExits, AllEnters>>,
                 <<UpdateSet(Order(S) - 1), UpdateSet(Order(S))>>,
                 <<ExitSet(Order(S)), ExitSet(Order(S) - 1)>>,
                 <<EnterSet(Order(S) - 1), EnterSet(Order(S))>>},
     member |-> {<<UpdateSet(Order(S)), AllUpdates>>,
                 <<ExitSet(Order(S)), AllExits>>,
                 <<EnterSet(Order(S)), AllEnters>>}]

\* -------------------------------------------------- StateTransitionsConfig
\* A config is the sequence of systems it adds to the schedule.
System(fn, S, set) == [fn |-> fn, state |-> S, set |-> set]

ConfigEmpty == <<>>

with_on_exit(cfg, fn, S) == Append(cfg, System(fn, S, ExitSet(Order(S))))

with_on_enter(cfg, fn, S) == Append(cfg, System(fn, S, EnterSet(Order(S))))

ConfigDefault(S) ==
    <<System("on_exit_transition", S, ExitSet(Order(S))),
      System("on_enter_transition", S, EnterSet(Order(S)))>>

\* An application config that asks for the reentrant events only.
ConfigReentrant(S) ==
    with_on_enter(with_on_exit(ConfigEmpty, "on_reexit_transition", S),
                  "on_reenter_transition", S)

\* An application config that adds the reentrant events to the default ones.
ConfigBoth(S) ==
    with_on_enter(with_on_exit(ConfigDefault(S), "on_reexit_transition", S),
                  "on_reenter_transition", S)

Configs(S) == {ConfigDefault(S), ConfigEmpty, ConfigReentrant(S), ConfigBoth(S)}

\* ------------------------------------------------------------ registration
\* The part of the world that registration touches: the number of
\* RegisteredState<S> marker entities per type and the StateTransition
\* schedule (its systems and its system-set configuration).
EmptySchedule ==
    [registered |-> [S \in Types |-> 0], systems |-> <<>>,
     before |-> {}, member |-> {}]

RECURSIVE register_state(_, _, _, _)
RECURSIVE register_required_states(_, _)
\* register_required_states that registers the first member of the set only.
register_required_states_FirstOnly(w, set) ==
    IF set = <<>> THEN w
    ELSE register_state(w, Head(set), ConfigDefault(Head(set)), TRUE)

register_required_states(w, set) ==
    IF set = <<>> THEN w
    ELSE register_required_states(
             register_state(w, Head(set), ConfigDefault(Head(set)), TRUE),
             Tail(set))

\* register_state without the check of the RegisteredState marker.
register_state_Again(w, S, transitions, recursive) ==
    LET w1 == register_required_states(w, DependencySet(S))
    IN [registered |-> [w1.registered EXCEPT ![S] = @ + 1],
        before     |-> w1.before \cup configuration(S).before,
        member     |-> w1.member \cup configuration(S).member,
        systems    |-> w1.systems
                       \o <<System("update_system", S, UpdateSet(Order(S)))>>
                       \o transitions]

\* register_state that adds the default transitions whatever the config.
register_state_DefaultTransitions(w, S, transitions, recursive) ==
    LET w1 == register_required_states(w, DependencySet(S))
    IN IF w1.registered[S] = 1 THEN w1
       ELSE IF w1.registered[S] > 1 THEN w1
       ELSE [registered |-> [w1.registered EXCEPT ![S] = @ + 1],
             before     |-> w1.before \cup configuration(S).before,
             member     |-> w1.member \cup configuration(S).member,
             systems    |-> w1.systems
                            \o <<System("update_system", S, UpdateSet(Order(S)))>>
                            \o ConfigDefault(S)]

register_state(w, S, transitions, recursive) ==
    LET w1 == register_required_states(w, DependencySet(S))
    IN IF w1.registered[S] = 1 THEN w1
       ELSE IF w1.registered[S] > 1 THEN w1
       ELSE [registered |-> [w1.registered EXCEPT ![S] = @ + 1],
             before     |-> w1.before \cup configuration(S).before,
             member     |-> w1.member \cup configuration(S).member,
             systems    |-> w1.systems
                            \o <<System("update_system", S, UpdateSet(Order(S)))>>
                            \o transitions]


\* ------------------------------------------------------------------- world
Entities == 1..MaxEntities

\* Entity::PLACEHOLDER, an id that no entity of the world has.
PLACEHOLDER == MaxEntities + 1

\* The records of an entity without any StateData component.
NoRecords == [S \in {} |-> StateDataDefault(S)]

VARIABLES
    registered,   \* number of RegisteredState<S> marker entities, per type
    systems,      \* systems of the StateTransition schedule, in insertion order
    before,       \* ordering edges between system sets
    member,       \* membership edges between system sets
    alive,        \* entities that exist (state owners)
    markers,      \* entities that carry GlobalStateMarker
    data,         \* data[e][S]: the StateData<S> component of entity e
    ticks,        \* number of completed runs of the schedule
    inTick,       \* TRUE while the StateTransition schedule is running
    ran,          \* indices of the systems that already ran in this run
    log,          \* events triggered in this run, in order
    pre,          \* data as it was before this run (or before the last call)
    decisions,    \* decisions[e][S]: results of State::update in this run
    advanced,     \* advanced[e][S]: arguments of StateData::update in this run
    calls,        \* number of API calls made while the app is set up
    lastCall,     \* the last API call of the setup, with the state before it
    configs,      \* configs[S]: the register_state::<S> calls of the app
    inits,        \* <<entity, S>>: owners that init_state::<S> was called for
    buffers,      \* BufferCache::buffers: descriptor -> Vec<CachedBufferMeta>
    created,      \* number of buffers the render device created
    idle          \* idle[b]: update() calls since buffer b was last returned

vars == <<registered, systems, before, member, alive, markers, data, ticks,
          inTick, ran, log, pre, decisions, advanced, calls, lastCall, configs,
          inits, buffers, created, idle>>

setupVars == <<calls, lastCall, configs>>

schedVars == <<registered, systems, before, member>>

worldVars == <<alive, markers, data>>

cacheVars == <<buffers, created, idle>>

\* BufferCache::default(): no descriptor has an entry.
EmptyCache == [d \in {} |-> <<>>]

NoHistory == [e \in Entities |-> [S \in Types |-> <<>>]]

NoData == [e \in Entities |-> NoRecords]

EmptyWorld == [alive |-> {}, markers |-> {}, data |-> NoData]

\* Inserting StateData<S> into an entity also inserts the default record of
\* every required component that is missing.  StateData<S> registers the
\* members of S::DependencySet as its required components.
InsertStateData(recs, S, rec) ==
    [T \in DOMAIN recs \cup {S} \cup Deps(S) |->
        IF T = S THEN rec
        ELSE IF T \in DOMAIN recs THEN recs[T]
        ELSE StateDataDefault(T)]

\* The lowest entity id that is not in use.
NewEntity(w) == CHOOSE e \in Entities \ w.alive :
                    \A f \in Entities \ w.alive : e <= f

\* World::spawn_empty
spawn_empty(w) == [w EXCEPT !.alive = @ \cup {NewEntity(w)}]

\* World::spawn(GlobalStateMarker): the application spawns a marker entity
\* itself.
spawn_marker(w) ==
    [w EXCEPT !.alive = @ \cup {NewEntity(w)}, !.markers = @ \cup {NewEntity(w)}]

\* The entities matched by Query<&StateData<S>, With<GlobalStateMarker>>.
GlobalQuery(w, S) == {e \in w.markers : S \in DOMAIN w.data[e]}

\* GlobalState::get, GlobalStateMut::get and get_mut: Query::single hands out
\* the record of the only match; it returns a plain reference, so without
\* exactly one match it has nothing to return and panics.
GlobalStateGet(w, S) ==
    IF Cardinality(GlobalQuery(w, S)) = 1
      THEN [panicked |-> FALSE,
            value |-> Some(w.data[CHOOSE e \in GlobalQuery(w, S) : TRUE][S])]
      ELSE [panicked |-> TRUE, value |-> None]

\* The in_state run condition: GlobalState::get().current() == target.
in_state(w, S, target) ==
    LET state == GlobalStateGet(w, S)
    IN IF state.panicked THEN [panicked |-> TRUE, value |-> FALSE]
       ELSE [panicked |-> FALSE, value |-> state.value[1].current = target]

\* InitializeStateCommand::apply that spawns a marker entity for every
\* init_state of the global owner.
InitializeStateApply_AlwaysSpawns(w, local, S, initial, suppress_initial_update) ==
    LET spawn  == local = None /\ w.alive # Entities
        entity == IF local # None THEN local[1]
                  ELSE IF spawn THEN NewEntity(w)
                  ELSE CHOOSE e \in w.markers : TRUE
        w1     == IF spawn
                    THEN [w EXCEPT !.alive = @ \cup {entity},
                                   !.markers = @ \cup {entity}]
                    ELSE w
    IN IF S \in DOMAIN w1.data[entity] THEN w1
       ELSE [w1 EXCEPT !.data[entity] =
                InsertStateData(@, S,
                    StateDataNew(S, initial, suppress_initial_update))]

\* InitializeStateCommand::apply that replaces a record that is present.
InitializeStateApply_Overwrites(w, local, S, initial, suppress_initial_update) ==
    LET spawn  == local = None /\ w.markers = {}
        failed == local = None /\ Cardinality(w.markers) > 1
        entity == IF local # None THEN local[1]
                  ELSE IF spawn THEN NewEntity(w)
                  ELSE CHOOSE e \in w.markers : TRUE
        w1     == IF spawn
                    THEN [w EXCEPT !.alive = @ \cup {entity},
                                   !.markers = @ \cup {entity}]
                    ELSE w
    IN IF failed THEN w
       ELSE [w1 EXCEPT !.data[entity] =
                InsertStateData(@, S,
                    StateDataNew(S, initial, suppress_initial_update))]

\* The entity InitializeStateCommand::apply resolves `local` to, as an
\* Option: None when the command returns early.
InitializeStateOwner(w, local) ==
    IF local # None THEN local
    ELSE IF w.markers = {} THEN Some(NewEntity(w))
    ELSE IF Cardinality(w.markers) > 1 THEN None
    ELSE Some(CHOOSE e \in w.markers : TRUE)

\* InitializeStateCommand::apply on the world w = [alive, markers, data];
\* `local` is an Option<Entity>.
InitializeStateApply(w, local, S, initial, suppress_initial_update) ==
    LET spawn  == local = None /\ w.markers = {}
        failed == local = None /\ Cardinality(w.markers) > 1
        entity == IF local # None THEN local[1]
                  ELSE IF spawn THEN NewEntity(w)
                  ELSE CHOOSE e \in w.markers : TRUE
        w1     == IF spawn
                    THEN [w EXCEPT !.alive = @ \cup {entity},
                                   !.markers = @ \cup {entity}]
                    ELSE w
    IN IF failed THEN w
       ELSE IF S \in DOMAIN w1.data[entity] THEN w1
       ELSE [w1 EXCEPT !.data[entity] =
                InsertStateData(@, S,
                    StateDataNew(S, initial, suppress_initial_update))]

\* SetStateTargetCommand::apply that keeps a target that is already staged.
SetStateTargetApply_FirstWins(w, local, S, target) ==
    LET failed == local = None /\ Cardinality(w.markers) # 1
        entity == IF local # None THEN local[1]
                  ELSE CHOOSE e \in w.markers : TRUE
    IN IF failed THEN w
       ELSE IF S \notin DOMAIN w.data[entity] THEN w
       ELSE IF is_something(w.data[entity][S].target) THEN w
       ELSE [w EXCEPT !.data[entity][S].target =
                IF target # None THEN Enable(target[1]) ELSE Disable]

\* SetStateTargetCommand::apply that inserts the record when it is missing.
SetStateTargetApply_Inserts(w, local, S, target) ==
    LET failed == local = None /\ Cardinality(w.markers) # 1
        entity == IF local # None THEN local[1]
                  ELSE CHOOSE e \in w.markers : TRUE
        staged == IF target # None THEN Enable(target[1]) ELSE Disable
    IN IF failed THEN w
       ELSE IF S \notin DOMAIN w.data[entity]
         THEN [w EXCEPT !.data[entity] =
                  InsertStateData(@, S, [StateDataDefault(S) EXCEPT
                                            !.target = staged])]
       ELSE [w EXCEPT !.data[entity][S].target = staged]

\* SetStateTargetCommand::apply that settles for any of several markers.
SetStateTargetApply_AnyMarker(w, local, S, target) ==
    LET failed == local = None /\ w.markers = {}
        entity == IF local # None THEN local[1]
                  ELSE CHOOSE e \in w.markers : TRUE
    IN IF failed THEN w
       ELSE IF S \notin DOMAIN w.data[entity] THEN w
       ELSE [w EXCEPT !.data[entity][S].target =
                IF target # None THEN Enable(target[1]) ELSE Disable]

\* SetStateTargetCommand::apply; `target` is an Option<S>.
SetStateTargetApply(w, local, S, target) ==
    LET failed == local = None /\ Cardinality(w.markers) # 1
        entity == IF local # None THEN local[1]
                  ELSE CHOOSE e \in w.markers : TRUE
    IN IF failed THEN w
       ELSE IF S \notin DOMAIN w.data[entity] THEN w
       ELSE [w EXCEPT !.data[entity][S].target =
                IF target # None THEN Enable(target[1]) ELSE Disable]

World == [alive |-> alive, markers |-> markers, data |-> data]

\* Owners an API call may name: the global owner or an existing entity.
Owners == {None} \cup {Some(e) : e \in alive}

\* --------------------------------------------------------------- app setup
\* register_state called for each type of `types` in turn, with the config
\* the application chose for it.
RECURSIVE RegisterEach(_, _, _)
RegisterEach(w, types, config) ==
    IF types = <<>> THEN w
    ELSE RegisterEach(register_state(w, Head(types), config[Head(types)], FALSE),
                      Tail(types), config)

\* No API call yet.
NoCall == [op |-> "none"]

\* No register_state call yet.
NoConfigs == [S \in Types |-> <<>>]

\* The register_state::<S> calls made by RegisterEach(w, types, config), per
\* type: the config passed and whether S was unregistered before the call.
RECURSIVE Requests(_, _, _, _)
Requests(w, types, config, acc) ==
    IF types = <<>> THEN acc
    ELSE LET S == Head(types)
         IN Requests(register_state(w, S, config[S], FALSE), Tail(types), config,
                     [acc EXCEPT ![S] = Append(@, [config |-> config[S],
                                                   first |-> w.registered[S] = 0])])

\* The configs of an application that uses every kind of config.
MixedConfig(S) ==
    CASE S = "Manual"   -> ConfigBoth(S)
      [] S = "Computed" -> ConfigEmpty
      [] S = "Leaf"     -> ConfigReentrant(S)
      [] OTHER          -> ConfigDefault(S)

\* The configs of an application that opts Computed out of the events.
ComputedEmptyConfig(S) ==
    IF S = "Computed" THEN ConfigEmpty ELSE ConfigDefault(S)

\* The register_state calls of the application's setup: the leaf registered
\* with the default transitions (its dependencies recursively) and then
\* Computed with the empty config, or Manual, Computed and Leaf registered
\* with configs of their own (Sub recursively).
AppRegistrations ==
    { [types |-> <<"Leaf", "Computed">>,
       config |-> [S \in Types |-> ComputedEmptyConfig(S)]],
      [types |-> <<"Manual", "Computed", "Leaf">>,
       config |-> [S \in Types |-> MixedConfig(S)]] }

\* The schedules the application's setup can leave behind.
AppSchedules ==
    { RegisterEach(EmptySchedule, r.types, r.config) : r \in AppRegistrations }

RECURSIVE SpawnEmpties(_, _)
SpawnEmpties(w, n) == IF n = 0 THEN w ELSE SpawnEmpties(spawn_empty(w), n - 1)

\* init_state called for each type of `types` in turn for the same owner,
\* disabled and with the initial update suppressed.
RECURSIVE InitEach(_, _, _)
InitEach(w, local, types) ==
    IF types = <<>> THEN w
    ELSE InitEach(InitializeStateApply(w, local, Head(types), None, TRUE),
                  local, Tail(types))

\* The worlds the application's setup can leave behind: some empty entities
\* and every state type initialised for one owner, the root first and the
\* leaf last.
AppWorlds ==
    UNION { { InitializeStateApply(
                  InitEach(SpawnEmpties(EmptyWorld, n), local,
                           <<"Manual", "Computed", "Sub">>),
                  local, "Leaf", initial, suppress) :
                local \in {None} \cup {Some(e) : e \in 1..n},
                initial \in {None}, suppress \in BOOLEAN }
            : n \in 0..(MaxEntities - 1) }

\* The application after its setup, before the first run of the schedule.
Init ==
    /\ \E r \in AppRegistrations :
          LET w == RegisterEach(EmptySchedule, r.types, r.config)
          IN /\ registered = w.registered
             /\ systems = w.systems
             /\ before = w.before
             /\ member = w.member
             /\ configs = Requests(EmptySchedule, r.types, r.config, NoConfigs)
    /\ \E w \in AppWorlds :
          /\ alive = w.alive
          /\ markers = w.markers
          /\ data = w.data
    /\ ticks = 0
    /\ inits = {}
    /\ buffers = EmptyCache
    /\ created = 0
    /\ idle = <<>>
    /\ inTick = FALSE
    /\ ran = {}
    /\ log = <<>>
    /\ pre = NoData
    /\ decisions = NoHistory
    /\ advanced = NoHistory
    /\ calls = 0
    /\ lastCall = NoCall

\* ------------------------------------------------------------- API actions
\* StatesExt::state_target on the World.
StateTarget(local, S, target) ==
    /\ ~inTick
    /\ ticks < MaxTicks
    /\ calls < MaxCalls
    /\ LET w == SetStateTargetApply(World, local, S, target)
       IN /\ alive' = w.alive
          /\ markers' = w.markers
          /\ data' = w.data
    /\ calls' = calls + 1
    /\ lastCall' = [op |-> "state_target", local |-> local, state |-> S,
                    target |-> target, alive |-> alive, markers |-> markers]
    /\ pre' = data
    /\ UNCHANGED <<schedVars, ticks, inTick, ran, log, decisions, advanced,
                   configs,
                   inits, cacheVars>>

\* --------------------------------------------------------------- scheduler
\* Transitive closure of the `before` edges, as reachability from set a.
RECURSIVE ReachFrom(_, _)
ReachFrom(frontier, seen) ==
    LET next == {e[2] : e \in {d \in before : d[1] \in frontier}} \ seen
    IN IF next = {} THEN seen ELSE ReachFrom(next, seen \cup next)

SetsOf(sys) == {sys.set} \cup {m[2] : m \in {d \in member : d[1] = sys.set}}

\* System i has to finish before system j may start.
MustPrecede(i, j) ==
    ReachFrom(SetsOf(systems[i]), {}) \cap SetsOf(systems[j]) # {}

Runnable(i) ==
    /\ i \in 1..Len(systems)
    /\ i \notin ran
    /\ \A j \in 1..Len(systems) : MustPrecede(j, i) => j \in ran

\* ----------------------------------------------------------------- systems
\* Entities matched by the query of update_system::<S>: they hold
\* StateData<S> and the StateData of every member of the dependency set.
UpdateQuery(S) ==
    {e \in alive : S \in DOMAIN data[e] /\ Deps(S) \subseteq DOMAIN data[e]}

\* Entities matched by the query of the transition systems of S.
TransitionQuery(S) == {e \in alive : S \in DOMAIN data[e]}

\* update_system's loop body calling State::update for a staged target only.
UpdateCall_TargetOnly(S, recs) ==
    LET state == [recs[S] EXCEPT !.is_updated = FALSE]
        is_target_changed == should_update(state.target)
    IN IF is_target_changed
         THEN <<StateUpdateFn(S, state, recs)>>
         ELSE <<>>

\* update_system's loop body calling State::update for every item.
UpdateCall_Always(S, recs) ==
    LET state == [recs[S] EXCEPT !.is_updated = FALSE]
    IN <<StateUpdateFn(S, state, recs)>>

\* The result of State::update for one item of update_system's loop, or
\* <<>> when the update function is not called.
UpdateCall(S, recs) ==
    LET state == [recs[S] EXCEPT !.is_updated = FALSE]
        is_dependency_set_changed == is_changed(DependencySet(S), recs)
        is_target_changed == should_update(state.target)
    IN IF is_dependency_set_changed \/ is_target_changed
         THEN <<StateUpdateFn(S, state, recs)>>
         ELSE <<>>

\* The argument of StateData::update for one item of update_system's loop,
\* or <<>> when it is not called.
AdvanceCall(S, recs) ==
    LET call == UpdateCall(S, recs)
    IN IF call = <<>> THEN <<>>
       ELSE IF as_options(call[1]) = None THEN <<>>
       ELSE <<as_options(call[1])[1]>>

\* update_system's loop body without `state.is_updated = false`.
UpdateItem_KeepsFlag(S, recs) ==
    LET state == recs[S]
        call  == UpdateCall(S, recs)
    IN IF call = <<>> THEN state
       ELSE IF as_options(call[1]) = None THEN state
       ELSE LET updated == StateDataUpdate(state, as_options(call[1])[1])
            IN [updated EXCEPT !.target = reset(updated.target)]

\* The body of update_system's loop for one entity: the new StateData<S>.
UpdateItem(S, recs) ==
    LET state == [recs[S] EXCEPT !.is_updated = FALSE]
        call  == UpdateCall(S, recs)
    IN IF call = <<>> THEN state
       ELSE IF as_options(call[1]) = None THEN state
       ELSE LET updated == StateDataUpdate(state, as_options(call[1])[1])
            IN [updated EXCEPT !.target = reset(updated.target)]

\* update_system that hands the global owner's dependency records to the
\* update of every instance.
update_system_GlobalDependencies(S) ==
    LET Seen(e) ==
            [T \in DOMAIN data[e] |->
                IF T \in Deps(S) /\ (\E g \in markers : T \in DOMAIN data[g])
                  THEN data[CHOOSE g \in markers : T \in DOMAIN data[g]][T]
                  ELSE data[e][T]]
    IN /\ data' = [e \in Entities |->
                     IF e \in UpdateQuery(S)
                       THEN [data[e] EXCEPT ![S] = UpdateItem(S, Seen(e))]
                       ELSE data[e]]
       /\ decisions' = [e \in Entities |->
                     IF e \in UpdateQuery(S)
                       THEN [decisions[e] EXCEPT
                                ![S] = @ \o UpdateCall(S, Seen(e))]
                       ELSE decisions[e]]
       /\ advanced' = [e \in Entities |->
                     IF e \in UpdateQuery(S)
                       THEN [advanced[e] EXCEPT
                                ![S] = @ \o AdvanceCall(S, Seen(e))]
                       ELSE advanced[e]]
       /\ UNCHANGED log

\* update_system that also clears the is_updated flag of the dependency
\* records it was handed.
update_system_ConsumesDependencies(S) ==
    /\ data' = [e \in Entities |->
                  IF e \in UpdateQuery(S)
                    THEN [T \in DOMAIN data[e] |->
                            IF T = S THEN UpdateItem(S, data[e])
                            ELSE IF T \in Deps(S)
                              THEN [data[e][T] EXCEPT !.is_updated = FALSE]
                              ELSE data[e][T]]
                    ELSE data[e]]
    /\ decisions' = [e \in Entities |->
                  IF e \in UpdateQuery(S)
                    THEN [decisions[e] EXCEPT
                             ![S] = @ \o UpdateCall(S, data[e])]
                    ELSE decisions[e]]
    /\ advanced' = [e \in Entities |->
                  IF e \in UpdateQuery(S)
                    THEN [advanced[e] EXCEPT
                             ![S] = @ \o AdvanceCall(S, data[e])]
                    ELSE advanced[e]]
    /\ UNCHANGED log

update_system(S) ==
    /\ data' = [e \in Entities |->
                  IF e \in UpdateQuery(S)
                    THEN [data[e] EXCEPT ![S] = UpdateItem(S, data[e])]
                    ELSE data[e]]
    /\ decisions' = [e \in Entities |->
                  IF e \in UpdateQuery(S)
                    THEN [decisions[e] EXCEPT
                             ![S] = @ \o UpdateCall(S, data[e])]
                    ELSE decisions[e]]
    /\ advanced' = [e \in Entities |->
                  IF e \in UpdateQuery(S)
                    THEN [advanced[e] EXCEPT
                             ![S] = @ \o AdvanceCall(S, data[e])]
                    ELSE advanced[e]]
    /\ UNCHANGED log

Event(name, S, target, previous, current) ==
    [event |-> name, state |-> S, target |-> target,
     previous |-> previous, current |-> current]

\* The entities of a query in iteration order (ascending id).
RECURSIVE InOrder(_)
InOrder(es) ==
    IF es = {} THEN <<>>
    ELSE LET e == CHOOSE x \in es : \A y \in es : x <= y
         IN <<e>> \o InOrder(es \ {e})

\* Events triggered by one of on_exit_transition, on_enter_transition,
\* on_reexit_transition, on_reenter_transition over the entities `es`.
RECURSIVE TransitionEvents(_, _, _)
TransitionEvents(name, S, es) ==
    IF es = <<>> THEN <<>>
    ELSE LET entity == Head(es)
             state  == data[entity][S]
             target == IF entity \in markers THEN PLACEHOLDER ELSE entity
         IN (IF ~state.is_updated \/ state.is_reentrant
               THEN <<>>
               ELSE <<Event(name, S, target, state.previous, state.current)>>)
            \o TransitionEvents(name, S, Tail(es))

\* Events of a transition system that does not skip reentrant instances.
RECURSIVE TransitionEventsWithReentries(_, _, _)
TransitionEventsWithReentries(name, S, es) ==
    IF es = <<>> THEN <<>>
    ELSE LET entity == Head(es)
             state  == data[entity][S]
             target == IF entity \in markers THEN PLACEHOLDER ELSE entity
         IN (IF ~state.is_updated
               THEN <<>>
               ELSE <<Event(name, S, target, state.previous, state.current)>>)
            \o TransitionEventsWithReentries(name, S, Tail(es))

\* on_exit_transition that also fires for reentrant instances.
on_exit_transition_WithReentries(S) ==
    /\ log' = log \o TransitionEventsWithReentries("OnExit", S,
                                                   InOrder(TransitionQuery(S)))
    /\ UNCHANGED <<data, decisions, advanced>>

on_exit_transition(S) ==
    /\ log' = log \o TransitionEvents("OnExit", S, InOrder(TransitionQuery(S)))
    /\ UNCHANGED <<data, decisions, advanced>>

\* Events of a transition system that targets the owning entity also for
\* the global instance.
RECURSIVE TransitionEventsOwnTarget(_, _, _)
TransitionEventsOwnTarget(name, S, es) ==
    IF es = <<>> THEN <<>>
    ELSE LET entity == Head(es)
             state  == data[entity][S]
         IN (IF ~state.is_updated \/ state.is_reentrant
               THEN <<>>
               ELSE <<Event(name, S, entity, state.previous, state.current)>>)
            \o TransitionEventsOwnTarget(name, S, Tail(es))

\* on_enter_transition that never uses the placeholder.
on_enter_transition_OwnTarget(S) ==
    /\ log' = log \o TransitionEventsOwnTarget("OnEnter", S,
                                               InOrder(TransitionQuery(S)))
    /\ UNCHANGED <<data, decisions, advanced>>

on_enter_transition(S) ==
    /\ log' = log \o TransitionEvents("OnEnter", S, InOrder(TransitionQuery(S)))
    /\ UNCHANGED <<data, decisions, advanced>>

on_reexit_transition(S) ==
    /\ log' = log \o TransitionEvents("OnReexit", S, InOrder(TransitionQuery(S)))
    /\ UNCHANGED <<data, decisions, advanced>>

on_reenter_transition(S) ==
    /\ log' = log \o TransitionEvents("OnReenter", S, InOrder(TransitionQuery(S)))
    /\ UNCHANGED <<data, decisions, advanced>>

\* ------------------------------------------------------------ tick actions
\* World::run_schedule(StateTransition) starts.
BeginTick ==
    /\ ~inTick
    /\ ticks < MaxTicks
    /\ Len(systems) > 0
    /\ inTick' = TRUE
    /\ ran' = {}
    /\ log' = <<>>
    /\ pre' = data
    /\ decisions' = NoHistory
    /\ advanced' = NoHistory
    /\ calls' = 0
    /\ lastCall' = NoCall
    /\ UNCHANGED <<schedVars, worldVars, ticks, configs,
                   inits, cacheVars>>

RunSystem(i) ==
    /\ inTick
    /\ Runnable(i)
    /\ ran' = ran \cup {i}
    /\ LET sys == systems[i]
       IN CASE sys.fn = "update_system"         -> update_system(sys.state)
            [] sys.fn = "on_exit_transition"    -> on_exit_transition(sys.state)
            [] sys.fn = "on_enter_transition"   -> on_enter_transition(sys.state)
            [] sys.fn = "on_reexit_transition"  -> on_reexit_transition(sys.state)
            [] sys.fn = "on_reenter_transition" -> on_reenter_transition(sys.state)
    /\ UNCHANGED <<schedVars, alive, markers, ticks, inTick, pre, setupVars,
                   inits, cacheVars>>

\* Every system of the schedule has run: the end of the tick.
TickDone == inTick /\ ran = 1..Len(systems)

\* World::run_schedule(StateTransition) returns.
EndTick ==
    /\ TickDone
    /\ inTick' = FALSE
    /\ ticks' = ticks + 1
    /\ ran' = {}
    /\ log' = <<>>
    /\ pre' = NoData
    /\ decisions' = NoHistory
    /\ advanced' = NoHistory
    /\ UNCHANGED <<schedVars, worldVars, setupVars,
                   inits, cacheVars>>

Next ==
    \/ \E local \in Owners : \E S \in {T \in Types : HasUpdateTarget(T)} :
         \E target \in OptValues(S) : StateTarget(local, S, target)
    \/ BeginTick
    \/ \E i \in 1..Len(systems) : RunSystem(i)
    \/ EndTick

Spec == Init /\ [][Next]_vars

\* ----------------------------------------------------- StateData in isolation
\* A single record, constructed by StateData::new with any arguments.
InitData ==
    /\ registered = EmptySchedule.registered
    /\ systems = EmptySchedule.systems
    /\ before = EmptySchedule.before
    /\ member = EmptySchedule.member
    /\ alive = {1}
    /\ markers = {}
    /\ \E S \in Types : \E initial \in OptValues(S) : \E suppress \in BOOLEAN :
          data = [e \in Entities |->
                    IF e = 1 THEN (S :> StateDataNew(S, initial, suppress))
                    ELSE NoRecords]
    /\ ticks = 0
    /\ inits = {}
    /\ buffers = EmptyCache
    /\ created = 0
    /\ idle = <<>>
    /\ inTick = FALSE
    /\ ran = {}
    /\ log = <<>>
    /\ pre = NoData
    /\ decisions = NoHistory
    /\ advanced = NoHistory
    /\ calls = 0
    /\ lastCall = NoCall
    /\ configs = NoConfigs

\* StateData::update(next) on the record of type S of entity e.
DataUpdate(e, S, next) ==
    /\ S \in DOMAIN data[e]
    /\ pre' = data
    /\ data' = [data EXCEPT ![e][S] = StateDataUpdate(@, next)]
    /\ advanced' = [NoHistory EXCEPT ![e][S] = <<next>>]
    /\ UNCHANGED <<schedVars, alive, markers, ticks, inTick, ran, log, decisions,
                   setupVars,
                   inits, cacheVars>>

NextData ==
    \E e \in alive : \E S \in DOMAIN data[e] : \E next \in OptValues(S) :
        DataUpdate(e, S, next)

SpecData == InitData /\ [][NextData]_vars

\* ------------------------------------------------------------ app setup API
\* A new World with an empty Schedules resource.
InitSetup ==
    /\ registered = EmptySchedule.registered
    /\ systems = EmptySchedule.systems
    /\ before = EmptySchedule.before
    /\ member = EmptySchedule.member
    /\ alive = {}
    /\ markers = {}
    /\ data = NoData
    /\ ticks = 0
    /\ inits = {}
    /\ buffers = EmptyCache
    /\ created = 0
    /\ idle = <<>>
    /\ inTick = FALSE
    /\ ran = {}
    /\ log = <<>>
    /\ pre = NoData
    /\ decisions = NoHistory
    /\ advanced = NoHistory
    /\ calls = 0
    /\ lastCall = NoCall
    /\ configs = NoConfigs

Schedule ==
    [registered |-> registered, systems |-> systems,
     before |-> before, member |-> member]

\* The constructors of StateTransitionsConfig the setup uses.
SetupConfigs == {"default", "empty"}

\* The config a constructor returns for state type S.
SetupConfig(S, constructor) ==
    IF constructor = "default" THEN ConfigDefault(S) ELSE ConfigEmpty

\* StatesExt::register_state on the World, with the config that the named
\* constructor returns.  The config is built inside the step, so that every
\* evaluation of the step has a value of its own.
RegisterState(S, constructor) ==
    /\ ~inTick
    /\ calls < MaxCalls
    /\ LET config == SetupConfig(S, constructor)
           w      == register_state(Schedule, S, config, FALSE)
       IN /\ registered' = w.registered
          /\ systems' = w.systems
          /\ before' = w.before
          /\ member' = w.member
          /\ configs' = [configs EXCEPT
                            ![S] = Append(@, [config |-> config,
                                              first |-> registered[S] = 0])]
          /\ lastCall' = [op |-> "register_state", state |-> S,
                          config |-> config, schedule |-> Schedule]
    /\ calls' = calls + 1
    /\ pre' = data
    /\ UNCHANGED <<worldVars, ticks, inTick, ran, log, decisions, advanced,
                   inits, cacheVars>>

\* World::spawn_empty
SpawnEmpty ==
    /\ calls < MaxCalls
    /\ alive # Entities
    /\ LET w == spawn_empty(World)
       IN /\ alive' = w.alive
          /\ markers' = w.markers
          /\ data' = w.data
    /\ calls' = calls + 1
    /\ lastCall' = [op |-> "spawn_empty", alive |-> alive, markers |-> markers]
    /\ pre' = data
    /\ UNCHANGED <<schedVars, ticks, inTick, ran, log, decisions, advanced,
                   configs,
                   inits, cacheVars>>

\* StatesExt::init_state on the World.
InitState(local, S, initial, suppress_initial_update) ==
    /\ ~inTick
    /\ calls < MaxCalls
    /\ (local = None /\ markers = {}) => alive # Entities
    /\ LET w == InitializeStateApply(World, local, S, initial,
                                     suppress_initial_update)
       IN /\ alive' = w.alive
          /\ markers' = w.markers
          /\ data' = w.data
    /\ calls' = calls + 1
    /\ LET owner == InitializeStateOwner(World, local)
       IN /\ inits' = IF owner = None THEN inits
                       ELSE inits \cup {<<owner[1], S>>}
          /\ lastCall' = [op |-> "init_state", local |-> local, state |-> S,
                          initial |-> initial,
                          suppress |-> suppress_initial_update,
                          alive |-> alive, markers |-> markers,
                          first |-> /\ owner # None
                                    /\ <<owner[1], S>> \notin inits]
    /\ pre' = data
    /\ UNCHANGED <<schedVars, ticks, inTick, ran, log, decisions, advanced,
                   configs, cacheVars>>

\* The application spawns an entity with GlobalStateMarker.
SpawnMarker ==
    /\ calls < MaxCalls
    /\ alive # Entities
    /\ LET w == spawn_marker(World)
       IN /\ alive' = w.alive
          /\ markers' = w.markers
          /\ data' = w.data
    /\ calls' = calls + 1
    /\ lastCall' = [op |-> "spawn_marker", alive |-> alive, markers |-> markers]
    /\ pre' = data
    /\ UNCHANGED <<schedVars, ticks, inTick, ran, log, decisions, advanced,
                   configs,
                   inits, cacheVars>>

\* A system of the application evaluates the in_state::<S>(target) run
\* condition, which reads the global record through GlobalState::get.
InState(S, target) ==
    /\ calls < MaxCalls
    /\ calls' = calls + 1
    /\ lastCall' = [op |-> "in_state", state |-> S, target |-> target,
                    result |-> in_state(World, S, target),
                    alive |-> alive, markers |-> markers]
    /\ pre' = data
    /\ UNCHANGED <<schedVars, worldVars, ticks, inTick, ran, log, decisions,
                   advanced, configs,
                   inits, cacheVars>>

NextSetup ==
    \/ \E S \in Types : \E constructor \in SetupConfigs :
         RegisterState(S, constructor)
    \/ SpawnEmpty
    \/ SpawnMarker
    \/ \E S \in Types : InState(S, None)
    \/ \E local \in Owners : \E S \in Types : \E initial \in OptValues(S) :
         \E suppress \in BOOLEAN : InitState(local, S, initial, suppress)
    \/ \E local \in Owners : \E S \in {T \in Types : HasUpdateTarget(T)} :
         \E target \in OptValues(S) : StateTarget(local, S, target)

SpecSetup == InitSetup /\ [][NextSetup]_vars

\* ------------------------------------------------- several owners at once
\* The schedule after register_state::<Computed>() with the default config.
OwnersSchedule ==
    register_state(EmptySchedule, "Computed", ConfigDefault("Computed"), FALSE)

\* A World with the computed state registered and one empty entity.
InitOwners ==
    /\ registered = OwnersSchedule.registered
    /\ systems = OwnersSchedule.systems
    /\ before = OwnersSchedule.before
    /\ member = OwnersSchedule.member
    /\ LET w == spawn_empty(EmptyWorld)
       IN /\ alive = w.alive
          /\ markers = w.markers
          /\ data = w.data
    /\ ticks = 0
    /\ inits = {}
    /\ buffers = EmptyCache
    /\ created = 0
    /\ idle = <<>>
    /\ inTick = FALSE
    /\ ran = {}
    /\ log = <<>>
    /\ pre = NoData
    /\ decisions = NoHistory
    /\ advanced = NoHistory
    /\ calls = 0
    /\ lastCall = NoCall
    /\ configs = NoConfigs

\* The application initialises the computed state for the global owner and
\* for local entities, stages targets and runs the schedule, in any order.
NextOwners ==
    \/ \E local \in Owners : InitState(local, "Computed", None, TRUE)
    \/ \E local \in Owners : \E target \in OptValues("Manual") :
         StateTarget(local, "Manual", target)
    \/ BeginTick
    \/ \E i \in 1..Len(systems) : RunSystem(i)
    \/ EndTick

SpecOwners == InitOwners /\ [][NextOwners]_vars

\* -------------------------------------------------- StateSet in isolation
\* The dependency sets of arity 0 to MaxArity over the state types.
StateSets == UNION {[1..n -> Types] : n \in 0..MaxArity}

\* One entity that holds a record of every state type, each initialised
\* with or without its initial update suppressed.
InitSets ==
    /\ registered = EmptySchedule.registered
    /\ systems = EmptySchedule.systems
    /\ before = EmptySchedule.before
    /\ member = EmptySchedule.member
    /\ alive = {1}
    /\ markers = {}
    /\ \E suppress \in [Types -> BOOLEAN] :
          data = [e \in Entities |->
                    IF e = 1 THEN [S \in Types |-> StateDataNew(S, None, suppress[S])]
                    ELSE NoRecords]
    /\ ticks = 0
    /\ inits = {}
    /\ buffers = EmptyCache
    /\ created = 0
    /\ idle = <<>>
    /\ inTick = FALSE
    /\ ran = {}
    /\ log = <<>>
    /\ pre = NoData
    /\ decisions = NoHistory
    /\ advanced = NoHistory
    /\ calls = 0
    /\ lastCall = NoCall
    /\ configs = NoConfigs

\* StateSet::is_changed on the query item of entity e and
\* StateSet::HIGHEST_ORDER, for the dependency set `set`.
SetCall(e, set) ==
    /\ Types \subseteq DOMAIN data[e]
    /\ lastCall' = [op |-> "is_changed", entity |-> e, set |-> set,
                    changed |-> is_changed(set, data[e]),
                    highest |-> HIGHEST_ORDER(set)]
    /\ UNCHANGED <<schedVars, worldVars, ticks, inTick, ran, log, pre, decisions,
                   advanced, calls, configs,
                   inits, cacheVars>>

NextSets == \E e \in alive : \E set \in StateSets : SetCall(e, set)

SpecSets == InitSets /\ [][NextSets]_vars

\* --------------------------------------------- initial values and the schedule
\* The schedule of an application that registers the computed state and the
\* sub-state with the default transitions (Manual recursively).
InitialSchedule ==
    RegisterEach(EmptySchedule, <<"Computed", "Sub">>,
                 [S \in Types |-> ConfigDefault(S)])

\* The worlds after init_state::<Manual>(local, initial, suppress) followed
\* by init_state of its two dependents for the same owner.
InitialWorlds ==
    { InitEach(InitializeStateApply(spawn_empty(EmptyWorld), local, "Manual",
                                    initial, suppress),
               local, <<"Computed", "Sub">>) :
        <<local, initial, suppress>> \in
            {None, Some(1)} \X OptValues("Manual") \X BOOLEAN }

InitInitial ==
    /\ registered = InitialSchedule.registered
    /\ systems = InitialSchedule.systems
    /\ before = InitialSchedule.before
    /\ member = InitialSchedule.member
    /\ \E w \in InitialWorlds :
          /\ alive = w.alive
          /\ markers = w.markers
          /\ data = w.data
    /\ ticks = 0
    /\ inits = {}
    /\ buffers = EmptyCache
    /\ created = 0
    /\ idle = <<>>
    /\ inTick = FALSE
    /\ ran = {}
    /\ log = <<>>
    /\ pre = NoData
    /\ decisions = NoHistory
    /\ advanced = NoHistory
    /\ calls = 0
    /\ lastCall = NoCall
    /\ configs = NoConfigs

\* The application stages targets for the root and runs the schedule.
NextInitial ==
    \/ \E local \in Owners : \E target \in OptValues("Manual") :
         StateTarget(local, "Manual", target)
    \/ BeginTick
    \/ \E i \in 1..Len(systems) : RunSystem(i)
    \/ EndTick

SpecInitial == InitInitial /\ [][NextInitial]_vars

\* ------------------------------------------------------------- BufferCache
\* The buffer descriptors the application asks for.
Descriptors == {"d1", "d2"}

CachedBufferMeta(buffer, taken, frames_since_last_use) ==
    [buffer |-> buffer, taken |-> taken,
     frames_since_last_use |-> frames_since_last_use]

\* Index of the first buffer of a Vec<CachedBufferMeta> that is not taken,
\* 0 if there is none.
FirstFree(list) ==
    IF \E i \in 1..Len(list) : ~list[i].taken
      THEN CHOOSE i \in 1..Len(list) :
              /\ ~list[i].taken
              /\ \A j \in 1..(i - 1) : list[j].taken
      ELSE 0

\* BufferCache::get that hands out the first buffer of the entry although
\* it is taken.
BufferCacheGet_IgnoresTaken(cache, n, descriptor) ==
    IF descriptor \in DOMAIN cache /\ cache[descriptor] # <<>>
      THEN [buffers |-> [cache EXCEPT ![descriptor][1] =
                            CachedBufferMeta(@.buffer, TRUE, 0)],
            created |-> n,
            buffer  |-> cache[descriptor][1].buffer]
      ELSE [buffers |-> (descriptor :> <<CachedBufferMeta(n + 1, TRUE, 0)>>)
                           @@ cache,
            created |-> n + 1,
            buffer  |-> n + 1]

\* BufferCache::get on the map `cache` with a render device that created n
\* buffers so far: the new map, the new count and the buffer returned.
BufferCacheGet(cache, n, descriptor) ==
    IF descriptor \in DOMAIN cache
      THEN LET i == FirstFree(cache[descriptor])
           IN IF i # 0
                THEN [buffers |-> [cache EXCEPT ![descriptor][i] =
                                      CachedBufferMeta(@.buffer, TRUE, 0)],
                      created |-> n,
                      buffer  |-> cache[descriptor][i].buffer]
                ELSE [buffers |-> [cache EXCEPT ![descriptor] =
                                      Append(@, CachedBufferMeta(n + 1, TRUE, 0))],
                      created |-> n + 1,
                      buffer  |-> n + 1]
      ELSE [buffers |-> (descriptor :> <<CachedBufferMeta(n + 1, TRUE, 0)>>)
                           @@ cache,
            created |-> n + 1,
            buffer  |-> n + 1]

\* BufferCache::get_or: as get, a new buffer being created with the
\* contents the callback returns.
BufferCacheGetOr(cache, n, descriptor) == BufferCacheGet(cache, n, descriptor)

\* BufferCache::update.
BufferCacheUpdate(cache) ==
    [d \in DOMAIN cache |->
        SelectSeq([i \in 1..Len(cache[d]) |->
                      CachedBufferMeta(cache[d][i].buffer, FALSE,
                                       cache[d][i].frames_since_last_use + 1)],
                  LAMBDA texture : texture.frames_since_last_use < 3)]

\* The buffers a cache holds.
CachedBuffers(cache) ==
    UNION {{cache[d][i].buffer : i \in 1..Len(cache[d])} : d \in DOMAIN cache}

\* The buffers returned since the last update().
ReturnedBuffers == {b \in 1..Len(idle) : idle[b] = 0}

\* A new render world: an empty cache, no buffer created.
InitCache == InitSetup

\* A call of BufferCache::get or BufferCache::get_or with result `r`.
CacheCall(op, descriptor, r) ==
    /\ r.created <= MaxBuffers
    /\ buffers' = r.buffers
    /\ created' = r.created
    /\ idle' = IF r.buffer > Len(idle) THEN Append(idle, 0)
               ELSE [idle EXCEPT ![r.buffer] = 0]
    /\ lastCall' = [op |-> op, descriptor |-> descriptor, buffer |-> r.buffer,
                    returned |-> ReturnedBuffers]
    /\ UNCHANGED <<schedVars, worldVars, ticks, inTick, ran, log, pre, decisions,
                   advanced, calls, configs, inits>>

CacheGet(descriptor) ==
    CacheCall("get", descriptor, BufferCacheGet(buffers, created, descriptor))

CacheGetOr(descriptor) ==
    CacheCall("get_or", descriptor,
              BufferCacheGetOr(buffers, created, descriptor))

\* update_buffer_cache_system: BufferCache::update once per frame.
update_buffer_cache_system ==
    /\ buffers' = BufferCacheUpdate(buffers)
    /\ idle' = [b \in 1..Len(idle) |->
                  IF b \in CachedBuffers(buffers) THEN idle[b] + 1 ELSE idle[b]]
    /\ lastCall' = [op |-> "update", returned |-> ReturnedBuffers,
                    dropped |-> CachedBuffers(buffers)
                                   \ CachedBuffers(BufferCacheUpdate(buffers))]
    /\ UNCHANGED <<schedVars, worldVars, ticks, inTick, ran, log, pre, decisions,
                   advanced, calls, configs, inits, created>>

NextCache ==
    \/ \E descriptor \in Descriptors : CacheGet(descriptor)
    \/ \E descriptor \in Descriptors : CacheGetOr(descriptor)
    \/ update_buffer_cache_system

SpecCache == InitCache /\ [][NextCache]_vars

\* ================================================================== claims
\* The target an event of entity e is sent to.
OwnerTarget(e) == IF e \in markers THEN PLACEHOLDER ELSE e

\* Number of events `name` of state type S in the log for the instance of e.
CountEvents(name, S, e) ==
    Cardinality({i \in 1..Len(log) :
                    /\ log[i].event = name
                    /\ log[i].state = S
                    /\ log[i].target = OwnerTarget(e)})

\* The system `fn` of state type S has run in this tick.
HasRun(fn, S) ==
    \E i \in ran : systems[i].fn = fn /\ systems[i].state = S

\* The schedule holds the system `fn` of state type S.
HasSystem(fn, S) ==
    \E i \in 1..Len(systems) : systems[i].fn = fn /\ systems[i].state = S

\* StateData::update was applied to the record of S of entity e by the last
\* operation (SpecData) or in this tick (Spec), with argument Advanced(e, S).
WasAdvanced(e, S) == S \in DOMAIN pre[e] /\ advanced[e][S] # <<>>

Advanced(e, S) == advanced[e][S][Len(advanced[e][S])]

\* C1: advance(v) with v different from the record's current value leaves
\* previous equal to the value current held before the call, current equal
\* to v, is_reentrant false and is_updated true.
C1_AdvanceDistinct ==
    \A e \in alive : \A S \in DOMAIN data[e] :
        (WasAdvanced(e, S) /\ Advanced(e, S) # pre[e][S].current) =>
            /\ data[e][S].previous = pre[e][S].current
            /\ data[e][S].current = Advanced(e, S)
            /\ data[e][S].is_reentrant = FALSE
            /\ data[e][S].is_updated = TRUE

\* A distinct advance on a record that held a previous value and was marked
\* reentrant: the old previous is dropped, the flag cleared.
C1_Witness ==
    \E e \in alive : \E S \in DOMAIN data[e] :
        /\ WasAdvanced(e, S)
        /\ Advanced(e, S) # pre[e][S].current
        /\ pre[e][S].previous # None
        /\ pre[e][S].current # None
        /\ pre[e][S].previous # pre[e][S].current
        /\ pre[e][S].is_reentrant

\* C2: advance(v) with v equal to the record's current value leaves current
\* and previous unchanged and sets is_reentrant and is_updated; hence after
\* advance(v); advance(v) previous is what it was after the first call.
C2_AdvanceReentrant ==
    \A e \in alive : \A S \in DOMAIN data[e] :
        (WasAdvanced(e, S) /\ Advanced(e, S) = pre[e][S].current) =>
            /\ data[e][S].previous = pre[e][S].previous
            /\ data[e][S].current = pre[e][S].current
            /\ data[e][S].is_reentrant = TRUE
            /\ data[e][S].is_updated = TRUE

\* The second of advance(v); advance(v) on a record whose previous differs
\* from v.
C2_Witness ==
    \E e \in alive : \E S \in DOMAIN data[e] :
        /\ WasAdvanced(e, S)
        /\ Advanced(e, S) = pre[e][S].current
        /\ pre[e][S].is_updated
        /\ ~pre[e][S].is_reentrant
        /\ pre[e][S].previous # pre[e][S].current
        /\ pre[e][S].current # None

\* C3: within a tick every OnExit of a state type of higher order is
\* triggered before every OnExit of a state type of lower order, and every
\* OnEnter of a lower order before every OnEnter of a higher order.
C3_EventOrder ==
    \A i \in 1..Len(log) : \A j \in 1..Len(log) :
        i < j =>
            /\ (log[i].event = "OnExit" /\ log[j].event = "OnExit")
                 => Order(log[i].state) >= Order(log[j].state)
            /\ (log[i].event = "OnEnter" /\ log[j].event = "OnEnter")
                 => Order(log[i].state) <= Order(log[j].state)

\* A tick in which the leaf, a state of order 2 and the root all exit and
\* enter.
C3_Witness ==
    /\ TickDone
    /\ \E e \in alive :
          /\ \A S \in {"Manual", "Computed", "Leaf"} :
                CountEvents("OnExit", S, e) = 1 /\ CountEvents("OnEnter", S, e) = 1

\* C4: no OnExit or OnEnter is triggered before the update system of every
\* registered state type has run, and no OnEnter before every system that
\* triggers OnExit has run.
C4_PhasesSeparated ==
    /\ (\E i \in 1..Len(log) : log[i].event \in {"OnExit", "OnEnter"})
          => \A S \in Types : registered[S] > 0 => HasRun("update_system", S)
    /\ (\E i \in 1..Len(log) : log[i].event = "OnEnter")
          => \A S \in Types : HasSystem("on_exit_transition", S)
                                => HasRun("on_exit_transition", S)

\* An OnEnter has been triggered, after an OnExit, in a tick that changed
\* several records.
C4_Witness ==
    /\ inTick
    /\ \E i \in 1..Len(log) : log[i].event = "OnEnter"
    /\ \E i \in 1..Len(log) : log[i].event = "OnExit"
    /\ \E e \in alive : WasAdvanced(e, "Manual") /\ WasAdvanced(e, "Leaf")

\* C5: when the update system of a state type has run in a tick, the update
\* system of each of its direct and transitive dependencies has run in that
\* tick.
C5_DependenciesFirst ==
    \A S \in Types :
        HasRun("update_system", S)
            => \A D \in TransDeps(S) : HasRun("update_system", D)

\* The leaf's update function was called in a tick in which the root changed.
C5_Witness ==
    /\ inTick
    /\ \E e \in alive :
          /\ decisions[e]["Leaf"] # <<>>
          /\ WasAdvanced(e, "Manual")
          /\ ~pre[e]["Computed"].is_updated
          /\ ~pre[e]["Sub"].is_updated

HasDefaultTransitions(S) ==
    /\ HasSystem("on_exit_transition", S)
    /\ HasSystem("on_enter_transition", S)

\* C7: with the default transitions, at the end of a tick an instance has
\* triggered exactly one OnExit and one OnEnter if its is_updated is true and
\* its is_reentrant false, and none otherwise.
C7_DefaultEvents ==
    TickDone =>
        \A e \in alive : \A S \in DOMAIN data[e] :
            HasDefaultTransitions(S) =>
                LET fires == data[e][S].is_updated /\ ~data[e][S].is_reentrant
                IN /\ CountEvents("OnExit", S, e) = IF fires THEN 1 ELSE 0
                   /\ CountEvents("OnEnter", S, e) = IF fires THEN 1 ELSE 0

\* The end of a tick with an instance that fired and an updated, reentrant
\* one that did not.
C7_Witness ==
    /\ TickDone
    /\ \E e \in alive : \E S \in DOMAIN data[e] : \E T \in DOMAIN data[e] :
          /\ HasDefaultTransitions(S) /\ HasDefaultTransitions(T)
          /\ data[e][S].is_updated /\ ~data[e][S].is_reentrant
          /\ CountEvents("OnExit", S, e) = 1
          /\ data[e][T].is_updated /\ data[e][T].is_reentrant
          /\ CountEvents("OnExit", T, e) = 0

\* C8: OnReexit and OnReenter are triggered for every instance whose
\* is_updated is true at the end of the update phase, reentrant or not.
C8_ReentrantEvents ==
    TickDone =>
        \A e \in alive : \A S \in DOMAIN data[e] :
            (/\ HasSystem("on_reexit_transition", S)
             /\ HasSystem("on_reenter_transition", S)
             /\ data[e][S].is_updated)
                => /\ CountEvents("OnReexit", S, e) = 1
                   /\ CountEvents("OnReenter", S, e) = 1

\* C9: after the update phase that follows a state_target call the record's
\* target is Nothing again, whatever the update function returned.
C9_TargetConsumed ==
    TickDone =>
        \A e \in alive : \A S \in DOMAIN data[e] :
            (registered[S] = 1 /\ should_update(pre[e][S].target))
                => data[e][S].target = Nothing

\* C10: when State::update returns Nothing for an instance, its current,
\* previous and is_reentrant are as they were before the tick and its
\* is_updated is false.
C10_NothingLeavesRecord ==
    \A e \in alive : \A S \in DOMAIN data[e] :
        (inTick /\ decisions[e][S] = <<Nothing>>) =>
            /\ data[e][S].current = pre[e][S].current
            /\ data[e][S].previous = pre[e][S].previous
            /\ data[e][S].is_reentrant = pre[e][S].is_reentrant
            /\ data[e][S].is_updated = FALSE

\* State::update returned Nothing for an instance that was enabled and
\* marked updated by the tick before.
C10_Witness ==
    \E e \in alive : \E S \in DOMAIN data[e] :
        /\ TickDone
        /\ decisions[e][S] = <<Nothing>>
        /\ pre[e][S].is_updated
        /\ pre[e][S].current # None

\* C11: at the end of a tick is_updated of an instance of a registered state
\* type is true exactly when StateData::update was applied to it in this
\* tick; a flag left by an earlier tick or by init_state does not survive.
C11_UpdatedIffAdvanced ==
    TickDone =>
        \A e \in alive : \A S \in DOMAIN data[e] :
            registered[S] = 1 =>
                (data[e][S].is_updated <=> advanced[e][S] # <<>>)

\* The end of a tick with an instance that entered the tick marked updated
\* and was not advanced, and another one that was advanced.
C11_Witness ==
    /\ TickDone
    /\ \E e \in alive : \E S \in DOMAIN data[e] : \E T \in DOMAIN data[e] :
          /\ registered[S] = 1 /\ registered[T] = 1
          /\ pre[e][S].is_updated /\ advanced[e][S] = <<>>
          /\ ~pre[e][T].is_updated /\ advanced[e][T] # <<>>

\* C12: in a tick in which no state of its DependencySet was updated, a
\* computed state (target `()`) is not passed to State::update, keeps current
\* and previous, has is_updated false after the tick and triggers no event.
C12_ComputedNeedsDependency ==
    TickDone =>
        \A e \in alive : \A S \in DOMAIN data[e] :
            (/\ registered[S] = 1
             /\ ~HasUpdateTarget(S)
             /\ \A D \in Deps(S) : ~data[e][D].is_updated)
                => /\ decisions[e][S] = <<>>
                   /\ data[e][S].current = pre[e][S].current
                   /\ data[e][S].previous = pre[e][S].previous
                   /\ ~data[e][S].is_updated
                   /\ \A name \in {"OnExit", "OnEnter", "OnReexit", "OnReenter"} :
                         CountEvents(name, S, e) = 0

\* The end of a tick in which an enabled computed state stayed as it was
\* while a state outside its DependencySet was updated.
C12_Witness ==
    /\ TickDone
    /\ \E e \in alive :
          /\ {"Computed", "Sub"} \subseteq DOMAIN data[e]
          /\ decisions[e]["Computed"] = <<>>
          /\ data[e]["Computed"].current # None
          /\ pre[e]["Computed"].is_updated
          /\ ~data[e]["Manual"].is_updated
          /\ data[e]["Sub"].is_updated

\* C13: the first tick after init_state with suppress_initial_update = false
\* and no target staged triggers OnEnter for the instance.
C13_InitialEnter ==
    (TickDone /\ ticks = 0) =>
        \A e \in alive : \A S \in DOMAIN data[e] :
            (/\ HasSystem("on_enter_transition", S)
             /\ pre[e][S].is_updated
             /\ ~should_update(pre[e][S].target))
                => CountEvents("OnEnter", S, e) = 1

\* C14: after init_state with suppress_initial_update = true (is_updated
\* false), a tick in which no target is staged for the instance and none of
\* its dependencies is updated triggers no OnExit or OnEnter for it and
\* leaves its is_updated false.
C14_SuppressedInit ==
    TickDone =>
        \A e \in alive : \A S \in DOMAIN data[e] :
            (/\ registered[S] = 1
             /\ ~pre[e][S].is_updated
             /\ ~should_update(pre[e][S].target)
             /\ \A D \in Deps(S) : ~data[e][D].is_updated)
                => /\ CountEvents("OnExit", S, e) = 0
                   /\ CountEvents("OnEnter", S, e) = 0
                   /\ ~data[e][S].is_updated

\* The end of the first tick for an owner whose leaf was initialised with
\* the update suppressed and for whom no target was staged.
C14_Witness ==
    /\ TickDone
    /\ ticks = 0
    /\ \E e \in alive :
          /\ "Leaf" \in DOMAIN data[e]
          /\ ~pre[e]["Leaf"].is_updated
          /\ \A D \in Deps("Leaf") : ~data[e][D].is_updated
          /\ ~data[e]["Leaf"].is_updated
          /\ HasRun("on_enter_transition", "Leaf")
          /\ CountEvents("OnEnter", "Leaf", e) = 0

\* The entity the last init_state or state_target call resolved its owner
\* to among the entities that existed before the call, as an Option.
CallOwner ==
    IF lastCall.local # None THEN lastCall.local
    ELSE IF Cardinality(lastCall.markers) = 1
      THEN Some(CHOOSE e \in lastCall.markers : TRUE)
      ELSE None

\* The owner of the last call held a record of the call's state type.
CallOwnerHadRecord ==
    CallOwner # None /\ lastCall.state \in DOMAIN pre[CallOwner[1]]

\* Number of update systems of state type S in the schedule.
UpdateSystems(S) ==
    Cardinality({i \in 1..Len(systems) :
                    systems[i].fn = "update_system" /\ systems[i].state = S})

\* C15: register_state::<S>() for a state type that is already registered
\* leaves the registered markers and the schedule's systems and sets as they
\* were; the config passed is ignored.
C15_RegisterIdempotent ==
    (/\ lastCall.op = "register_state"
     /\ lastCall.schedule.registered[lastCall.state] = 1)
        => Schedule = lastCall.schedule

\* A second register_state::<S>() that passed a config different from the
\* one S was registered with.
C15_Witness ==
    /\ lastCall.op = "register_state"
    /\ lastCall.schedule.registered[lastCall.state] = 1
    /\ Len(configs[lastCall.state]) = 2
    /\ configs[lastCall.state][1].first
    /\ configs[lastCall.state][1].config # lastCall.config

\* C16: after register_state::<S>(), S and each of its direct and transitive
\* dependencies has exactly one registered marker and exactly one update
\* system in the schedule.
C16_DependenciesRegisteredOnce ==
    lastCall.op = "register_state" =>
        \A D \in {lastCall.state} \cup TransDeps(lastCall.state) :
            registered[D] = 1 /\ UpdateSystems(D) = 1

\* The leaf registered into an empty schedule: its root is reached through
\* both of its dependencies.
C16_Witness ==
    /\ lastCall.op = "register_state"
    /\ lastCall.state = "Leaf"
    /\ lastCall.schedule = EmptySchedule
    /\ "Manual" \in TransDeps("Computed") \cap TransDeps("Sub")

\* The application passed the empty config to a register_state::<S> call.
RegisteredEmpty(S) ==
    \E i \in 1..Len(configs[S]) : configs[S][i].config = ConfigEmpty

\* The application passed the empty config to a register_state::<S> call
\* made while S was not registered.
RegisteredEmptyFirst(S) ==
    \E i \in 1..Len(configs[S]) :
        configs[S][i].config = ConfigEmpty /\ configs[S][i].first

\* No OnExit or OnEnter of state type S has been triggered in this tick.
NoDefaultEvents(S) ==
    \A k \in 1..Len(log) :
        log[k].state = S => log[k].event \notin {"OnExit", "OnEnter"}

\* C17 (as stated): no OnExit or OnEnter is triggered for a state type that
\* the application registered with the empty config, whatever the order of
\* the registrations.
C17_EmptyConfigOptsOut ==
    \A S \in Types : RegisteredEmpty(S) => NoDefaultEvents(S)

\* C17 (amended): no OnExit or OnEnter is triggered for a state type that
\* the application registered with the empty config while the type was not
\* yet registered, neither directly nor as a dependency.
C17_FirstEmptyConfigOptsOut ==
    \A S \in Types : RegisteredEmptyFirst(S) => NoDefaultEvents(S)

\* The end of a tick in which an instance of a type registered first with
\* the empty config changed its value.
C17_Witness ==
    /\ TickDone
    /\ \E S \in Types : \E e \in alive :
          /\ RegisteredEmptyFirst(S)
          /\ S \in DOMAIN data[e]
          /\ data[e][S].is_updated /\ ~data[e][S].is_reentrant
          /\ CountEvents("OnExit", S, e) = 0
          /\ CountEvents("OnEnter", S, e) = 0

\* C18: after state_target for an instance that exists, the target of the
\* instance is Enable(v) if the call passed Some(v) and Disable if it passed
\* None, whatever earlier calls had staged.
C18_LastTargetWins ==
    (lastCall.op = "state_target" /\ CallOwnerHadRecord) =>
        data[CallOwner[1]][lastCall.state].target =
            IF lastCall.target = None THEN Disable
            ELSE Enable(lastCall.target[1])

\* A state_target call that replaced a different staged target.
C18_Witness ==
    /\ lastCall.op = "state_target"
    /\ CallOwnerHadRecord
    /\ is_something(pre[CallOwner[1]][lastCall.state].target)
    /\ pre[CallOwner[1]][lastCall.state].target
          # data[CallOwner[1]][lastCall.state].target

\* C19: init_state for an owner that already holds a record of the state
\* type changes no record and creates no entity and no marker.
C19_SecondInitIgnored ==
    (lastCall.op = "init_state" /\ CallOwnerHadRecord) =>
        /\ data = pre
        /\ alive = lastCall.alive
        /\ markers = lastCall.markers

\* A second init_state whose initial value and suppress flag both differ
\* from what the record holds.
C19_Witness ==
    /\ lastCall.op = "init_state"
    /\ CallOwnerHadRecord
    /\ data[CallOwner[1]][lastCall.state].current # lastCall.initial
    /\ data[CallOwner[1]][lastCall.state].is_updated = lastCall.suppress

\* C20: state_target for an owner without a record of the state type (a
\* local entity or the global owner without it, or no global marker) changes
\* no record and creates no entity and no marker.
C20_TargetWithoutRecord ==
    (lastCall.op = "state_target" /\ ~CallOwnerHadRecord) =>
        /\ data = pre
        /\ alive = lastCall.alive
        /\ markers = lastCall.markers

\* A state_target call for the global owner, which held records of other
\* state types only.
C20_Witness ==
    /\ lastCall.op = "state_target"
    /\ lastCall.local = None
    /\ CallOwner # None
    /\ ~CallOwnerHadRecord
    /\ DOMAIN pre[CallOwner[1]] # {}


\* C21: with more than one entity carrying GlobalStateMarker, init_state and
\* state_target addressed to the global owner are abandoned: no record is
\* created or modified, no entity is spawned and no marker is added or
\* removed.
C21_MultipleMarkersAbandon ==
    (/\ lastCall.op \in {"init_state", "state_target"}
     /\ lastCall.local = None
     /\ Cardinality(lastCall.markers) > 1)
        => /\ data = pre
           /\ alive = lastCall.alive
           /\ markers = lastCall.markers

\* A state_target call for the global owner while two entities carried the
\* marker, one of them holding a record of the state type.
C21_Witness ==
    /\ lastCall.op = "state_target"
    /\ lastCall.local = None
    /\ Cardinality(lastCall.markers) = 2
    /\ \E e \in lastCall.markers : lastCall.state \in DOMAIN pre[e]

\* C22: reading the global record of a state type that was never
\* initialised, through GlobalState::get or the in_state run condition, does
\* not panic.
C22_ReadNeverPanics ==
    lastCall.op = "in_state" => ~lastCall.result.panicked

\* The init_state or state_target call `call` is addressed to entity e: by
\* its id, or as the global owner (the only marker entity, or the entity
\* that a global init_state spawns when there is no marker).
Addresses(call, e, spawned) ==
    IF call.local # None THEN call.local = Some(e)
    ELSE \/ call.markers = {e}
         \/ call.markers = {} /\ call.op = "init_state" /\ e \in spawned

\* The records of an owner after the call `call` addressed to it, computed
\* from the owner's own records `recs` only.
OwnRecordsAfter(call, recs) ==
    IF call.op = "init_state"
      THEN IF call.state \in DOMAIN recs THEN recs
           ELSE InsertStateData(recs, call.state,
                                StateDataNew(call.state, call.initial,
                                             call.suppress))
      ELSE IF call.state \notin DOMAIN recs THEN recs
           ELSE [recs EXCEPT ![call.state].target =
                    IF call.target # None THEN Enable(call.target[1])
                    ELSE Disable]

\* C23: instances of the same state type on different owners never
\* interact: whenever the records of an owner change, the step is either an
\* init_state or state_target call addressed to that owner, or the update
\* system of one state type, and in both cases the owner's new records are
\* computed from its own old records only (the update reads the dependency
\* records of the same entity, never those of the global owner).
C23_OwnersIsolated ==
    [][\A e \in Entities :
          \/ data'[e] = data[e]
          \/ /\ calls' = calls + 1
             /\ lastCall'.op \in {"init_state", "state_target"}
             /\ Addresses(lastCall', e, alive' \ alive)
             /\ data'[e] = OwnRecordsAfter(lastCall', data[e])
          \/ /\ inTick
             /\ \E S \in DOMAIN data[e] :
                   data'[e] = [data[e] EXCEPT ![S] = UpdateItem(S, data[e])]]_vars

\* The end of a tick in which the computed state of a local entity was
\* updated and disabled, its own root being B, while the global owner's
\* root is A and its computed state enabled.
C23_Witness ==
    /\ TickDone
    /\ \E g \in markers : \E e \in alive \ markers :
          /\ {"Manual", "Computed"} \subseteq DOMAIN data[g]
          /\ {"Manual", "Computed"} \subseteq DOMAIN data[e]
          /\ data[g]["Manual"].current = Some("A")
          /\ data[g]["Computed"].current # None
          /\ data[e]["Manual"].current = Some("B")
          /\ decisions[e]["Computed"] # <<>>
          /\ data[e]["Computed"].current = None

\* C24: register_state, init_state and state_target keep the markers unique:
\* a call made while at most one entity carries GlobalStateMarker leaves at
\* most one, no state type ever has more than one RegisteredState marker,
\* and the only call that adds a global marker is an init_state for the
\* global owner made while no entity carries one.
C24_MarkersUnique ==
    [][(/\ calls' = calls + 1
        /\ lastCall'.op \in {"register_state", "init_state", "state_target"})
          => /\ Cardinality(markers) <= 1 => Cardinality(markers') <= 1
             /\ \A S \in Types : registered'[S] <= 1
             /\ markers' # markers =>
                   /\ lastCall'.op = "init_state"
                   /\ lastCall'.local = None
                   /\ markers = {}
                   /\ Cardinality(markers') = 1]_vars

\* An init_state for the global owner that found the marker entity of an
\* earlier call and gave it the record, every state type being registered.
C24_Witness ==
    /\ lastCall.op = "init_state"
    /\ lastCall.local = None
    /\ Cardinality(lastCall.markers) = 1
    /\ markers = lastCall.markers
    /\ \E g \in markers : /\ lastCall.state \notin DOMAIN pre[g]
                           /\ lastCall.state \in DOMAIN data[g]
                           /\ DOMAIN pre[g] # {}
    /\ \A S \in Types : registered[S] = 1

\* The greatest member of a set of naturals, 0 for the empty set.
Maximum(ns) == CHOOSE m \in ns \cup {0} : \A n \in ns \cup {0} : m >= n

\* The indices of the ordered system sets that the schedule names.
SetIndices ==
    {p[1][2] : p \in before \cup member} \cup {p[2][2] : p \in before \cup member}
    \cup {systems[i].set[2] : i \in 1..Len(systems)}

\* C25: the order of every state type is 1 plus the maximum order of its
\* dependencies (0 for the empty set): types without dependencies have
\* order 1, no type has order 0, every dependency has a strictly smaller
\* order than its dependent, and the set indices ORDER and ORDER - 1 that
\* registration configures never fall below 0.
C25_OrderDerived ==
    /\ \A S \in Types :
          /\ Order(S) = 1 + Maximum({Order(D) : D \in Deps(S)})
          /\ Order(S) >= 1
          /\ Deps(S) = {} => Order(S) = 1
          /\ \A D \in Deps(S) : Order(D) < Order(S)
    /\ \A n \in SetIndices : n >= 0
    /\ \A S \in Types : registered[S] = 1 =>
          /\ <<UpdateSet(Order(S) - 1), UpdateSet(Order(S))>> \in before
          /\ \A i \in 1..Len(systems) :
                systems[i].state = S => systems[i].set[2] = Order(S)

\* The leaf and all its dependencies are registered: the schedule names the
\* update sets 0 (ORDER - 1 of the root) to 3 (ORDER of the leaf).
C25_Witness ==
    /\ \A S \in Types : registered[S] = 1
    /\ <<UpdateSet(0), UpdateSet(1)>> \in before
    /\ <<UpdateSet(2), UpdateSet(3)>> \in before
    /\ <<ExitSet(1), ExitSet(0)>> \in before

\* C26: for a dependency set of any arity, is_changed is the logical OR of
\* the members' is_updated flags and HIGHEST_ORDER the maximum of the
\* members' orders; for arity 0 is_changed is false and HIGHEST_ORDER is 0.
C26_SetFolds ==
    lastCall.op = "is_changed" =>
        LET set  == lastCall.set
            recs == data[lastCall.entity]
        IN /\ lastCall.changed = (\E i \in 1..Len(set) : recs[set[i]].is_updated)
           /\ lastCall.highest = Maximum({Order(set[i]) : i \in 1..Len(set)})
           /\ set = <<>> => (~lastCall.changed /\ lastCall.highest = 0)

\* A set of three members of which only the last is updated and the second
\* has the highest order.
C26_Witness ==
    /\ lastCall.op = "is_changed"
    /\ Len(lastCall.set) >= 3
    /\ LET set  == lastCall.set
           recs == data[lastCall.entity]
       IN /\ ~recs[set[1]].is_updated
          /\ ~recs[set[2]].is_updated
          /\ recs[set[3]].is_updated
          /\ Order(set[2]) > Order(set[1])
          /\ Order(set[2]) > Order(set[3])
          /\ lastCall.changed
          /\ lastCall.highest = Order(set[2])

\* No run of the schedule is in progress, or its last system has finished.
AfterTick == ~inTick \/ TickDone

\* C27: with the root Manual and the computed state ("enabled iff Manual is
\* A") both initialised disabled and suppressed for the same owner, after
\* every tick and whatever targets were staged on Manual, Computed.current
\* is present if and only if Manual.current is A.
C27_DerivedFollowsManual ==
    AfterTick =>
        \A e \in alive :
            {"Manual", "Computed"} \subseteq DOMAIN data[e] =>
                (data[e]["Computed"].current # None
                    <=> data[e]["Manual"].current = Some("A"))

\* The end of a tick in which Manual moved from B to A and the computed
\* state, disabled before, was enabled.
C27_Witness ==
    /\ TickDone
    /\ \E e \in alive :
          /\ {"Manual", "Computed"} \subseteq DOMAIN data[e]
          /\ pre[e]["Manual"].current = Some("B")
          /\ pre[e]["Computed"].current = None
          /\ data[e]["Manual"].current = Some("A")
          /\ data[e]["Computed"].current = Some("Computed")

InitOwner ==
    IF lastCall.local # None THEN lastCall.local
    ELSE IF Cardinality(lastCall.markers) <= 1 /\ Cardinality(markers) = 1
      THEN Some(CHOOSE e \in markers : TRUE)
      ELSE None

\* C29: an init_state::<S> that creates the record of S for an owner also
\* leaves the owner with a record of every direct and transitive dependency
\* of S: the default record for those it did not hold, the record it held
\* unchanged for the others.
C29_DependenciesInserted ==
    (/\ lastCall.op = "init_state"
     /\ InitOwner # None
     /\ lastCall.state \notin DOMAIN pre[InitOwner[1]]
     /\ lastCall.state \in DOMAIN data[InitOwner[1]])
        => \A D \in TransDeps(lastCall.state) :
              /\ D \in DOMAIN data[InitOwner[1]]
              /\ data[InitOwner[1]][D] =
                    IF D \in DOMAIN pre[InitOwner[1]]
                      THEN pre[InitOwner[1]][D]
                      ELSE StateDataDefault(D)

\* C30: during a run of the schedule a record of state type T of an entity
\* changes only in the step of update_system::<T>, and only if the entity
\* is matched by its query: the update step of a state type modifies no
\* record of another state type (no dependency record in particular), no
\* system adds or removes a record, and no record is mutated by the update
\* step of two different state types.
C30_UpdateFrame ==
    [][inTick =>
          \A e \in Entities :
              /\ DOMAIN data'[e] = DOMAIN data[e]
              /\ \A T \in DOMAIN data[e] :
                    data'[e][T] # data[e][T] =>
                        /\ e \in UpdateQuery(T)
                        /\ \E i \in ran' \ ran :
                              /\ systems[i].fn = "update_system"
                              /\ systems[i].state = T]_vars

\* The update system of the leaf has run and changed the leaf's record,
\* while both of its dependency records are still marked updated.
C30_Witness ==
    /\ inTick
    /\ HasRun("update_system", "Leaf")
    /\ \E e \in alive :
          /\ Types \subseteq DOMAIN data[e]
          /\ advanced[e]["Leaf"] # <<>>
          /\ data[e]["Leaf"].current # pre[e]["Leaf"].current
          /\ data[e]["Computed"].is_updated
          /\ data[e]["Sub"].is_updated

\* C31: after any advance on a record, reentrant_previous() returns the
\* value that current held immediately before that advance, for reentrant
\* and non-reentrant advances alike.
C31_ReentrantPrevious ==
    \A e \in alive : \A S \in DOMAIN data[e] :
        WasAdvanced(e, S) =>
            reentrant_previous(data[e][S]) = pre[e][S].current

\* A reentrant advance on a record whose previous value differs from its
\* current one.
C31_Witness ==
    \E e \in alive : \E S \in DOMAIN data[e] :
        /\ WasAdvanced(e, S)
        /\ Advanced(e, S) = pre[e][S].current
        /\ pre[e][S].current # None
        /\ pre[e][S].previous # pre[e][S].current
        /\ data[e][S].is_reentrant

\* The last result of State::update for the instance of S of entity e in
\* this tick was a decision (Enable or Disable).
Decided(e, S) ==
    /\ decisions[e][S] # <<>>
    /\ decisions[e][S][Len(decisions[e][S])].kind \in {"Enable", "Disable"}

\* C32: once the update function of an instance has returned a decision in
\* a tick, the instance's staged target is Nothing (the default target),
\* whether or not the decision used it; and a sub-state that was updated on
\* account of a target staged while its gate was closed takes its default
\* value X, not the staged one, when the gate opens in the next tick with no
\* new target staged.
C32_TargetResetOnDecision ==
    /\ inTick =>
          \A e \in alive : \A S \in DOMAIN data[e] :
              Decided(e, S) => data[e][S].target = TargetDefault(S)
    /\ TickDone =>
          \A e \in alive :
              (/\ {"Manual", "Sub"} \subseteq DOMAIN data[e]
               /\ ~pre[e]["Manual"].is_updated
               /\ pre[e]["Sub"].is_updated
               /\ pre[e]["Manual"].current # Some("B")
               /\ pre[e]["Sub"].target = Nothing
               /\ data[e]["Manual"].current = Some("B"))
                  => data[e]["Sub"].current = Some("X")

\* The end of the second tick: in the first one the sub-state was updated
\* on account of its own target alone (Manual was not updated) while the
\* gate was closed, in this one the gate opened and the sub-state took X.
C32_Witness ==
    /\ TickDone
    /\ ticks = 1
    /\ \E e \in alive :
          /\ {"Manual", "Sub"} \subseteq DOMAIN data[e]
          /\ ~pre[e]["Manual"].is_updated
          /\ pre[e]["Sub"].is_updated
          /\ pre[e]["Sub"].target = Nothing
          /\ pre[e]["Sub"].current = None
          /\ data[e]["Manual"].current = Some("B")
          /\ Decided(e, "Sub")
          /\ data[e]["Sub"].current = Some("X")

\* C33: a reentrant update of a dependency counts as a dependency change:
\* at the end of a tick in which the record of D was updated reentrantly,
\* the update function of every direct dependent of D on the same owner
\* has been invoked, while no OnExit or OnEnter was emitted for D.
C33_ReentrantDependency ==
    TickDone =>
        \A e \in alive : \A S \in DOMAIN data[e] : \A D \in Deps(S) :
            (/\ e \in UpdateQuery(S)
             /\ registered[S] = 1
             /\ data[e][D].is_updated
             /\ data[e][D].is_reentrant)
                => /\ decisions[e][S] # <<>>
                   /\ CountEvents("OnExit", D, e) = 0
                   /\ CountEvents("OnEnter", D, e) = 0

\* The end of a tick in which Manual re-applied A: the computed state and
\* the sub-state, which stage no target, were updated and no OnExit or
\* OnEnter of Manual was emitted by its transition systems.
C33_Witness ==
    /\ TickDone
    /\ HasRun("on_exit_transition", "Manual")
    /\ HasRun("on_enter_transition", "Manual")
    /\ \E e \in alive :
          /\ Types \subseteq DOMAIN data[e]
          /\ pre[e]["Manual"].current = Some("A")
          /\ data[e]["Manual"].is_updated
          /\ data[e]["Manual"].is_reentrant
          /\ pre[e]["Sub"].target = Nothing
          /\ decisions[e]["Computed"] # <<>>
          /\ decisions[e]["Sub"] # <<>>
          /\ CountEvents("OnExit", "Manual", e) = 0

\* The payloads of the events `name` of state type S sent to `target`.
Payloads(name, S, target) ==
    {<<log[i].previous, log[i].current>> :
        i \in {j \in 1..Len(log) : /\ log[j].event = name
                                    /\ log[j].state = S
                                    /\ log[j].target = target}}

\* C34: every OnExit and OnEnter in the log carries the previous and current
\* values that the record of an owning instance holds after the update
\* phase, its previous differs from its current, and once both transition
\* systems of a type have run, the OnExit and OnEnter events of an instance
\* carry the same payloads.
C34_EventPayloads ==
    /\ \A i \in 1..Len(log) :
          log[i].event \in {"OnExit", "OnEnter"} =>
              /\ log[i].previous # log[i].current
              /\ \E e \in alive :
                    /\ OwnerTarget(e) = log[i].target
                    /\ log[i].state \in DOMAIN data[e]
                    /\ data[e][log[i].state].previous = log[i].previous
                    /\ data[e][log[i].state].current = log[i].current
    /\ \A S \in Types : \A t \in Entities \cup {PLACEHOLDER} :
          (HasRun("on_exit_transition", S) /\ HasRun("on_enter_transition", S))
              => Payloads("OnExit", S, t) = Payloads("OnEnter", S, t)

\* The end of a tick in which an instance went from one value to another
\* and both of its events are in the log.
C34_Witness ==
    /\ TickDone
    /\ \E e \in alive : \E S \in DOMAIN data[e] :
          /\ data[e][S].previous # None
          /\ data[e][S].current # None
          /\ Payloads("OnExit", S, OwnerTarget(e))
                = {<<data[e][S].previous, data[e][S].current>>}
          /\ Payloads("OnEnter", S, OwnerTarget(e))
                = {<<data[e][S].previous, data[e][S].current>>}

\* C35: no event is targeted at the id of an entity that carries the global
\* marker; an event targeted at the placeholder belongs to an updated
\* instance of a marker entity, any other event to the updated instance of
\* exactly the entity it targets; and at the end of a tick every instance
\* that changed value has its OnEnter at the placeholder if its owner
\* carries the marker and at the owner otherwise.
C35_EventTargets ==
    /\ \A i \in 1..Len(log) :
          /\ log[i].target \notin markers
          /\ IF log[i].target = PLACEHOLDER
                THEN \E e \in markers :
                        /\ log[i].state \in DOMAIN data[e]
                        /\ data[e][log[i].state].current = log[i].current
                ELSE /\ log[i].target \in alive
                     /\ log[i].state \in DOMAIN data[log[i].target]
                     /\ data[log[i].target][log[i].state].current
                            = log[i].current
    /\ TickDone =>
          \A e \in alive : \A S \in DOMAIN data[e] :
              (/\ HasRun("on_enter_transition", S)
               /\ data[e][S].is_updated
               /\ ~data[e][S].is_reentrant)
                  => <<data[e][S].previous, data[e][S].current>> \in
                        Payloads("OnEnter", S,
                                 IF e \in markers THEN PLACEHOLDER ELSE e)

\* The end of a tick whose log holds an OnEnter of the global instance at
\* the placeholder and an OnEnter of a local instance at its owner.
C35_Witness ==
    /\ TickDone
    /\ \E g \in markers : \E e \in alive \ markers :
          \E i, j \in 1..Len(log) :
              /\ log[i].event = "OnEnter" /\ log[j].event = "OnEnter"
              /\ log[i].target = PLACEHOLDER
              /\ log[i].state \in DOMAIN data[g]
              /\ data[g][log[i].state].is_updated
              /\ log[j].target = e
              /\ data[e][log[j].state].is_updated

\* The records of one entity after the update systems of the state types
\* `order` ran one after the other.
RECURSIVE RunInOrder(_, _, _)
RunInOrder(e, recs, order) ==
    IF order = <<>> THEN recs
    ELSE LET S == Head(order)
         IN RunInOrder(e,
                       IF e \in UpdateQuery(S) /\ HasSystem("update_system", S)
                         THEN [recs EXCEPT ![S] = UpdateItem(S, recs)]
                         ELSE recs,
                       Tail(order))

\* The event a transition system emits.
EventName(fn) ==
    CASE fn = "on_exit_transition"    -> "OnExit"
      [] fn = "on_enter_transition"   -> "OnEnter"
      [] fn = "on_reexit_transition"  -> "OnReexit"
      [] fn = "on_reenter_transition" -> "OnReenter"

\* The events the transition systems of the schedule emit for `recs`.
EventsFor(recs) ==
    {Event(EventName(systems[i].fn), systems[i].state, OwnerTarget(e),
           recs[e][systems[i].state].previous,
           recs[e][systems[i].state].current) :
        <<i, e>> \in {p \in (1..Len(systems)) \X alive :
                        /\ systems[p[1]].fn # "update_system"
                        /\ p[2] \in TransitionQuery(systems[p[1]].state)
                        /\ recs[p[2]][systems[p[1]].state].is_updated
                        /\ ~recs[p[2]][systems[p[1]].state].is_reentrant}}

\* C36: the outcome of a tick does not depend on the order the scheduler
\* picked: at the end of every tick, whatever interleaving led there, each
\* record equals the one obtained from the records at the start of the tick
\* by running the update systems in the order Manual, Computed, Sub, Leaf,
\* which also equals the one of the order Manual, Sub, Computed, Leaf, and
\* the set of emitted events is the one these records determine.
C36_OrderIndependent ==
    TickDone =>
        /\ \A e \in alive :
              /\ data[e] = RunInOrder(e, pre[e],
                                      <<"Manual", "Computed", "Sub", "Leaf">>)
              /\ data[e] = RunInOrder(e, pre[e],
                                      <<"Manual", "Sub", "Computed", "Leaf">>)
        /\ {log[i] : i \in 1..Len(log)} = EventsFor(data)

\* The end of a tick in which the computed state and the sub-state, which
\* have the same order, both changed value and the exit system of the
\* sub-state ran before that of the computed state.
C36_Witness ==
    /\ TickDone
    /\ Order("Computed") = Order("Sub")
    /\ \E e \in alive :
          /\ Types \subseteq DOMAIN data[e]
          /\ data[e]["Computed"].is_updated /\ ~data[e]["Computed"].is_reentrant
          /\ data[e]["Sub"].is_updated /\ ~data[e]["Sub"].is_reentrant
          /\ \E i, j \in 1..Len(log) :
                /\ i < j
                /\ log[i].event = "OnExit" /\ log[i].state = "Sub"
                /\ log[j].event = "OnExit" /\ log[j].state = "Computed"

\* C37: a record's previous equals its current only while both are absent
\* and the record has never changed value: the two are equal after a step
\* only if they were equal before it and the step left current as it was,
\* so that once an advance changed the value they differ for good.
C37_PreviousDiffers ==
    /\ [](\A e \in alive : \A S \in DOMAIN data[e] :
            data[e][S].previous = data[e][S].current
                => data[e][S].current = None)
    /\ [][\A e \in alive : \A S \in DOMAIN data[e] :
            data'[e][S].previous = data'[e][S].current
                => /\ data[e][S].previous = data[e][S].current
                   /\ data'[e][S].current = data[e][S].current]_vars

\* A record that went from absent to a value and back to absent: its
\* previous is the value and its current is absent.
C37_Witness ==
    \E e \in alive : \E S \in DOMAIN data[e] :
        /\ WasAdvanced(e, S)
        /\ pre[e][S].previous = None
        /\ pre[e][S].current # None
        /\ data[e][S].current = None
        /\ data[e][S].previous = pre[e][S].current

\* C38: at the end of the first tick after a parent was initialised with a
\* value and no target was staged for it, the computed dependent on the
\* same owner holds what its update function yields for that value.
C38_DependentsSeeInitial ==
    (TickDone /\ ticks = 0) =>
        \A e \in alive :
            (/\ {"Manual", "Computed"} \subseteq DOMAIN data[e]
             /\ pre[e]["Manual"].current # None
             /\ ~should_update(pre[e]["Manual"].target))
                => Some(data[e]["Computed"].current) =
                      as_options(UpdateComputed(data[e]["Computed"], data[e]))

\* C39: an init_state::<S> call for an owner that init_state::<S> was not
\* called for before leaves the owner's record of S with current equal to
\* the initial value passed, whatever was initialised for the owner earlier.
C39_InitialValueTaken ==
    (/\ lastCall.op = "init_state"
     /\ lastCall.first
     /\ InitOwner # None)
        => /\ lastCall.state \in DOMAIN data[InitOwner[1]]
           /\ data[InitOwner[1]][lastCall.state].current = lastCall.initial

\* C40: a get or get_or never returns a buffer that was already returned
\* since the last update(); a cached buffer has seen fewer than three
\* update() calls since it was last returned, so that the third one drops
\* it; and an update() drops no buffer that was returned since the update()
\* before it.
C40_BufferCache ==
    /\ lastCall.op \in {"get", "get_or"}
          => lastCall.buffer \notin lastCall.returned
    /\ \A b \in CachedBuffers(buffers) : idle[b] < 3
    /\ lastCall.op = "update"
          => lastCall.returned \cap lastCall.dropped = {}

\* An update() that dropped a buffer at the third update() since it was
\* last returned and kept a buffer that was returned since the update()
\* before it, the cache having handed out two buffers for one descriptor.
C40_Witness ==
    /\ lastCall.op = "update"
    /\ \E b \in lastCall.dropped : idle[b] = 3
    /\ \E b \in lastCall.returned : b \in CachedBuffers(buffers)
    /\ \E d \in DOMAIN buffers : Len(buffers[d]) >= 2

=============================================================================
